---- MODULE Spec2Model ----
(***************************************************************************)
(* Model of the Bright Data tool registry (src/mastra/tools/web-tools.ts)  *)
(* and of the agent assembly (src/mastra/agents/web-agent.ts).             *)
(*                                                                         *)
(* Text is a sequence of fragments.  Credentials, country codes and zip    *)
(* codes are spelled one character per fragment, so that trim, length and  *)
(* toLowerCase work on characters; URLs, queries and the fixed parts of    *)
(* messages are spelled in larger fragments (scheme, host, path segment).  *)
(* A template literal is the concatenation of its parts.                   *)
(***************************************************************************)
EXTENDS Integers, Sequences, FiniteSets, TLC

VARIABLES config, build, buildError, client, clientsConstructed, tools,
          agent, inv

vars == <<config, build, buildError, client, clientsConstructed, tools,
          agent, inv>>

----------------------------------------------------------------------------
(* Bounds of the model *)

\* longest credential, in characters
MaxKeyLen == 2
\* number of tool invocations that can be in flight together
MaxInFlight == 2

----------------------------------------------------------------------------
(* JavaScript values and string operations *)

WhiteSpace == {" ", "\t"}

\* an optional string: undefined, or a string with its text
Undefined == [defined |-> FALSE, text |-> <<>>]
Str(t) == [defined |-> TRUE, text |-> t]

RECURSIVE TrimStart(_)
TrimStart(s) ==
  IF s # <<>> /\ Head(s) \in WhiteSpace THEN TrimStart(Tail(s)) ELSE s

RECURSIVE TrimEnd(_)
TrimEnd(s) ==
  IF s # <<>> /\ s[Len(s)] \in WhiteSpace
    THEN TrimEnd(SubSeq(s, 1, Len(s) - 1))
    ELSE s

\* String.prototype.trim
Trim(s) == TrimEnd(TrimStart(s))

\* value?.trim()
OptTrim(v) == IF v.defined THEN Str(Trim(v.text)) ELSE Undefined

LowerChar(c) ==
  CASE c = "U" -> "u"
    [] c = "S" -> "s"
    [] c = "G" -> "g"
    [] c = "B" -> "b"
    [] OTHER -> c

\* String.prototype.toLowerCase
ToLowerCase(s) == [i \in DOMAIN s |-> LowerChar(s[i])]

\* value?.toLowerCase()
OptToLowerCase(v) == IF v.defined THEN Str(ToLowerCase(v.text)) ELSE Undefined

\* truthiness of an optional string: undefined and '' are falsy
Truthy(v) == v.defined /\ v.text # <<>>

\* sub occurs in s
Contains(s, sub) ==
  \E i \in 0..(Len(s) - Len(sub)) : SubSeq(s, i + 1, i + Len(sub)) = sub

\* Array.prototype.join over an array of one-fragment names
RECURSIVE Join(_, _)
Join(names, sep) ==
  IF names = <<>> THEN <<>>
  ELSE IF Len(names) = 1 THEN <<names[1]>>
  ELSE <<names[1], sep>> \o Join(Tail(names), sep)

Put(f, k, v) == [x \in (DOMAIN f) \cup {k} |-> IF x = k THEN v ELSE f[x]]

----------------------------------------------------------------------------
(* Tool identifiers and configuration *)

BrightDataToolId == {"scrape", "search", "amazonProduct", "linkedinCollectProfiles"}

DatasetNames == {"amazon", "linkedin"}

KeyChars == {" ", "k"}

\* the credentials tried: undefined and every text of up to MaxKeyLen characters
ApiKeys ==
  {Undefined} \cup
  {Str(t) : t \in UNION {[1..n -> KeyChars] : n \in 0..MaxKeyLen}}

NoClient == [apiKey |-> <<>>, autoCreateZones |-> FALSE, datasets |-> {}]

\* new bdclient({apiKey, autoCreateZones: true}); which dataset sub-clients
\* the constructed handle carries is decided by the SDK
createBrightDataClient(apiKey, datasets) ==
  [apiKey |-> apiKey, autoCreateZones |-> TRUE, datasets |-> datasets]

createScrapeTool(c) ==
  [id |-> "scrape", inputSchema |-> "scrapeInputSchema", client |-> c]

createSearchTool(c) ==
  [id |-> "search", inputSchema |-> "searchInputSchema", client |-> c]

createAmazonProductTool(c) ==
  [id |-> "amazonProduct", inputSchema |-> "amazonProductInputSchema",
   client |-> c]

createLinkedinCollectProfilesTool(c) ==
  [id |-> "linkedinCollectProfiles",
   inputSchema |-> "linkedinCollectProfilesInputSchema", client |-> c]

ApiKeyRequired == <<"Bright Data API key is required to initialize tools.">>

NoTools == [x \in {} |-> NoClient]

\* the search insertion guarded by the scrape exclusion
RegistryOf_SearchGuardedByScrape(excludedTools, c) ==
  LET t0 == NoTools
      t1 == IF "scrape" \notin excludedTools
              THEN Put(t0, "scrape", createScrapeTool(c)) ELSE t0
      t2 == IF "scrape" \notin excludedTools
              THEN Put(t1, "search", createSearchTool(c)) ELSE t1
      t3 == IF "amazonProduct" \notin excludedTools
              THEN Put(t2, "amazonProduct", createAmazonProductTool(c)) ELSE t2
      t4 == IF "linkedinCollectProfiles" \notin excludedTools
              THEN Put(t3, "linkedinCollectProfiles",
                       createLinkedinCollectProfilesTool(c))
              ELSE t3
  IN t4

\* the registry filled by the four conditional insertions
RegistryOf(excludedTools, c) ==
  LET t0 == NoTools
      t1 == IF "scrape" \notin excludedTools
              THEN Put(t0, "scrape", createScrapeTool(c)) ELSE t0
      t2 == IF "search" \notin excludedTools
              THEN Put(t1, "search", createSearchTool(c)) ELSE t1
      t3 == IF "amazonProduct" \notin excludedTools
              THEN Put(t2, "amazonProduct", createAmazonProductTool(c)) ELSE t2
      t4 == IF "linkedinCollectProfiles" \notin excludedTools
              THEN Put(t3, "linkedinCollectProfiles",
                       createLinkedinCollectProfilesTool(c))
              ELSE t3
  IN t4

\* the credential check without the trim
ApiKeyMissing_Untrimmed(apiKey) == ~Truthy(apiKey)

\* the credential check at the head of brightDataTools
ApiKeyMissing(apiKey) == ~Truthy(OptTrim(apiKey))

----------------------------------------------------------------------------
(* Agent assembly *)

ExpectedTools == <<"search", "scrape", "amazonProduct", "linkedinCollectProfiles">>

\* the reduce with the test inverted: it collects the names whose tool exists
RECURSIVE missingTools_Inverted(_, _)
missingTools_Inverted(names, registry) ==
  IF names = <<>> THEN <<>>
  ELSE (IF Head(names) \in DOMAIN registry THEN <<Head(names)>> ELSE <<>>)
       \o missingTools_Inverted(Tail(names), registry)

\* a search that stops at the first name whose tool is undefined
RECURSIVE missingTools_FirstOnly(_, _)
missingTools_FirstOnly(names, registry) ==
  IF names = <<>> THEN <<>>
  ELSE IF Head(names) \notin DOMAIN registry THEN <<Head(names)>>
  ELSE missingTools_FirstOnly(Tail(names), registry)

\* the reduce that collects the names whose tool is undefined
RECURSIVE missingTools(_, _)
missingTools(names, registry) ==
  IF names = <<>> THEN <<>>
  ELSE (IF Head(names) \notin DOMAIN registry THEN <<Head(names)>> ELSE <<>>)
       \o missingTools(Tail(names), registry)

InitFailed(missing) ==
  <<"Bright Data tools failed to initialize (">>
  \o Join(missing, ", ")
  \o <<"). Verify BRIGHTDATA_API_KEY.">>

toolset(registry) ==
  [k \in {"searchTool", "scrapeTool", "amazonProductTool",
          "linkedinCollectProfilesTool"} |->
     CASE k = "searchTool" -> registry["search"]
       [] k = "scrapeTool" -> registry["scrape"]
       [] k = "amazonProductTool" -> registry["amazonProduct"]
       [] OTHER -> registry["linkedinCollectProfiles"]]

NoAgent == [status |-> "none", tools |-> NoTools, error |-> <<>>]

----------------------------------------------------------------------------
(* Values exchanged with the provider *)

\* a JavaScript value handed back by the provider or by a tool
NoValue == [type |-> "undefined", text |-> <<>>, props |-> <<>>]
StringValue(t) == [type |-> "string", text |-> t, props |-> <<>>]
ObjectValue(p) == [type |-> "object", text |-> <<>>, props |-> p]

\* JSON.stringify(value, null, 2) of an object whose properties are strings
RECURSIVE Members(_)
Members(props) ==
  IF props = <<>> THEN <<>>
  ELSE <<"\n  ", "\"", props[1][1], "\"", ": ", "\"", props[1][2], "\"">>
       \o (IF Len(props) > 1 THEN <<",">> ELSE <<>>)
       \o Members(Tail(props))

Stringify(v) ==
  IF v.type = "string" THEN <<"\"">> \o v.text \o <<"\"">>
  ELSE IF v.props = <<>> THEN <<"{}">>
  ELSE <<"{">> \o Members(v.props) \o <<"\n", "}">>

\* String(value)
String(v) == IF v.type = "string" THEN v.text ELSE <<"[object Object]">>

normalizeDatasetResult(result) ==
  IF result.type = "string" THEN result ELSE StringValue(Stringify(result))

\* what a rejected provider call throws: an Error, or any other value
ErrorOf(m) == [isError |-> TRUE, message |-> m, value |-> NoValue]
ThrownValue(v) == [isError |-> FALSE, message |-> <<>>, value |-> v]

\* error instanceof Error ? error.message : String(error)
MessageOf(error) == IF error.isError THEN error.message ELSE String(error.value)

----------------------------------------------------------------------------
(* Input schemas *)

Schemes == {"https://", "http://"}

\* z.string().url(): a scheme followed by a host
IsUrl(t) == Len(t) >= 2 /\ t[1] \in Schemes

\* /\/(dp|gp\/product)\//.test(value)
IsProductPath(t) == Contains(t, <<"/dp/">>) \/ Contains(t, <<"/gp/product/">>)

Issue(path, message) == <<[path |-> path, message |-> message]>>

When(cond, issue) == IF cond THEN issue ELSE <<>>

\* .optional().default(d)
Default(v, d) == IF v.defined THEN v ELSE Str(d)

InEnum(v, values) == v.defined => v.text \in values

Parsed(issues, value) == [ok |-> issues = <<>>, issues |-> issues, context |-> value]

\* the scrape schema with a plain z.string() for the url
scrapeInputSchema_AnyString(a) ==
  Parsed(
    When(a.country.defined /\ Len(a.country.text) # 2,
         Issue("country", "Country code must be two letters")),
    [url |-> a.url, country |-> a.country])

scrapeInputSchema(a) ==
  Parsed(
    When(~IsUrl(a.url), Issue("url", "A valid URL is required"))
    \o When(a.country.defined /\ Len(a.country.text) # 2,
            Issue("country", "Country code must be two letters")),
    [url |-> a.url, country |-> a.country])

searchInputSchema(a) ==
  Parsed(
    When(Len(a.query) < 1, Issue("query", "Search query is required"))
    \o When(~InEnum(a.searchEngine, {<<"google">>, <<"bing">>, <<"yandex">>}),
            Issue("searchEngine", "Invalid enum value"))
    \o When(a.country.defined /\ Len(a.country.text) # 2,
            Issue("country", "String must contain exactly 2 character(s)"))
    \o When(~InEnum(a.dataFormat, {<<"html">>, <<"markdown">>}),
            Issue("dataFormat", "Invalid enum value")),
    [query |-> a.query,
     searchEngine |-> Default(a.searchEngine, <<"google">>),
     country |-> a.country,
     dataFormat |-> Default(a.dataFormat, <<"markdown">>)])

amazonProductInputSchema(a) ==
  Parsed(
    IF ~IsUrl(a.url) THEN Issue("url", "Invalid url")
    ELSE When(~IsProductPath(a.url),
              Issue("url", "URL must contain /dp/ or /gp/product/")),
    [url |-> a.url, zipcode |-> a.zipcode])

linkedinCollectProfilesInputSchema(a) ==
  Parsed(
    When(\E k \in DOMAIN a.urls : ~IsUrl(a.urls[k]), Issue("urls", "Invalid url"))
    \o When(Len(a.urls) < 1,
            Issue("urls", "Provide at least one LinkedIn profile URL"))
    \o When(~InEnum(a.format, {<<"json">>, <<"jsonl">>}),
            Issue("format", "Invalid enum value")),
    [urls |-> a.urls, format |-> Default(a.format, <<"json">>)])

\* the schema bound to a tool as its inputSchema
Parse(schema, a) ==
  CASE schema = "scrapeInputSchema" -> scrapeInputSchema(a)
    [] schema = "searchInputSchema" -> searchInputSchema(a)
    [] schema = "amazonProductInputSchema" -> amazonProductInputSchema(a)
    [] OTHER -> linkedinCollectProfilesInputSchema(a)

----------------------------------------------------------------------------
(* Tool execution *)

\* the outcome of an invocation
Returned(v) == [kind |-> "returned", value |-> v, error |-> <<>>]
Threw(m) == [kind |-> "threw", value |-> NoValue, error |-> m]
ValidationError(issues) ==
  [kind |-> "validationError", value |-> NoValue, error |-> <<>>,
   issues |-> issues]

\* the first half of an execute: either it throws before any provider call,
\* or it issues one provider call and awaits it
Throws(m) == [throws |-> TRUE, error |-> m]
Calls(request) == [throws |-> FALSE, request |-> request]

scrapeStart(c, context) ==
  Calls([op |-> "scrape", url |-> context.url,
         options |-> [dataFormat |-> <<"markdown">>, format |-> <<"raw">>,
                      country |-> OptToLowerCase(context.country)]])

\* the transport format taken from the content format
searchStart_FormatFollowsDataFormat(c, context) ==
  LET searchEngine == Default(context.searchEngine, <<"google">>)
      dataFormat == Default(context.dataFormat, <<"markdown">>)
  IN Calls([op |-> "search", query |-> context.query,
            options |-> [searchEngine |-> searchEngine.text,
                         dataFormat |-> dataFormat.text,
                         format |-> dataFormat.text,
                         country |-> OptToLowerCase(context.country)]])

searchStart(c, context) ==
  LET searchEngine == Default(context.searchEngine, <<"google">>)
      dataFormat == Default(context.dataFormat, <<"markdown">>)
  IN Calls([op |-> "search", query |-> context.query,
            options |-> [searchEngine |-> searchEngine.text,
                         dataFormat |-> dataFormat.text,
                         format |-> <<"raw">>,
                         country |-> OptToLowerCase(context.country)]])

AmazonUnavailable == <<"Bright Data ", "Amazon", " dataset client is not available.">>

LinkedinUnavailable == <<"Bright Data ", "LinkedIn", " dataset client is not available.">>

\* the zip code carried as supplied, without the trim
amazonProductStart_UntrimmedZip(c, context) ==
  IF "amazon" \notin c.datasets THEN Throws(AmazonUnavailable)
  ELSE Calls([op |-> "collectProducts",
              request |-> <<IF Truthy(context.zipcode)
                              THEN [url |-> context.url,
                                    zipcode |-> context.zipcode.text]
                              ELSE [url |-> context.url]>>,
              options |-> [format |-> <<"json">>, async |-> FALSE]])

\* the dataset check moved inside the try block
amazonProductStart_CheckInTry(c, context) ==
  IF "amazon" \notin c.datasets
    THEN Throws(<<"Bright Data ", "Amazon product lookup", " failed for \"">>
                \o context.url \o <<"\": ">> \o AmazonUnavailable)
  ELSE Calls([op |-> "collectProducts",
              request |-> <<IF Truthy(OptTrim(context.zipcode))
                              THEN [url |-> context.url,
                                    zipcode |-> Trim(context.zipcode.text)]
                              ELSE [url |-> context.url]>>,
              options |-> [format |-> <<"json">>, async |-> FALSE]])

amazonProductStart(c, context) ==
  IF "amazon" \notin c.datasets THEN Throws(AmazonUnavailable)
  ELSE Calls([op |-> "collectProducts",
              request |-> <<IF Truthy(OptTrim(context.zipcode))
                              THEN [url |-> context.url,
                                    zipcode |-> Trim(context.zipcode.text)]
                              ELSE [url |-> context.url]>>,
              options |-> [format |-> <<"json">>, async |-> FALSE]])

linkedinCollectProfilesStart(c, context) ==
  LET format == Default(context.format, <<"json">>)
  IN IF "linkedin" \notin c.datasets THEN Throws(LinkedinUnavailable)
     ELSE Calls([op |-> "collectProfiles", urls |-> context.urls,
                 options |-> [format |-> format.text, async |-> FALSE]])

ExecuteStart(tool, context) ==
  CASE tool.id = "scrape" -> scrapeStart(tool.client, context)
    [] tool.id = "search" -> searchStart(tool.client, context)
    [] tool.id = "amazonProduct" -> amazonProductStart(tool.client, context)
    [] OTHER -> linkedinCollectProfilesStart(tool.client, context)

\* what an execute returns once its provider call has resolved
OnResolve(id, result) ==
  CASE id = "scrape" -> result
    [] id = "search" -> result
    [] id = "amazonProduct" -> normalizeDatasetResult(result)
    [] OTHER -> normalizeDatasetResult(result)

\* the message of the error an execute throws from its catch block
OnReject(id, context, error) ==
  CASE id = "scrape" ->
         <<"Bright Data ", "scrape", " failed for \"">> \o context.url
         \o <<"\": ">> \o MessageOf(error)
    [] id = "search" ->
         <<"Bright Data ", "search", " failed for \"">> \o context.query
         \o <<"\": ">> \o MessageOf(error)
    [] id = "amazonProduct" ->
         <<"Bright Data ", "Amazon product lookup", " failed for \"">>
         \o context.url \o <<"\": ">> \o MessageOf(error)
    [] OTHER ->
         <<"Bright Data ", "LinkedIn profile collection", " failed: ">>
         \o MessageOf(error)

----------------------------------------------------------------------------
(* Invocations *)

Idle == [pc |-> "idle", calls |-> <<>>]

\* an invocation of a tool with raw arguments: the arguments are parsed by
\* the tool's inputSchema, and execute runs on the parsed context only
Started(tool, a) ==
  LET parsed == Parse(tool.inputSchema, a)
      start == ExecuteStart(tool, parsed.context)
  IN IF ~parsed.ok
       THEN [pc |-> "done", tool |-> tool.id, args |-> a, calls |-> <<>>,
             validated |-> FALSE,
             outcome |-> ValidationError(parsed.issues)]
     ELSE IF start.throws
       THEN [pc |-> "done", tool |-> tool.id, args |-> a, calls |-> <<>>,
             validated |-> TRUE, context |-> parsed.context,
             outcome |-> Threw(start.error)]
     ELSE [pc |-> "awaiting", tool |-> tool.id, args |-> a,
           calls |-> <<start.request>>,
           validated |-> TRUE, context |-> parsed.context]

\* the awaited provider call resolves: execute returns
Resolved(slot, result) ==
  [tool |-> slot.tool, args |-> slot.args, calls |-> slot.calls,
   validated |-> slot.validated, context |-> slot.context,
   pc |-> "done", response |-> [resolved |-> TRUE, result |-> result],
   outcome |-> Returned(OnResolve(slot.tool, result))]

\* a catch block that issues the call once more before giving up
Rejected_RetryOnce(slot, error) ==
  IF Len(slot.calls) < 2
    THEN [slot EXCEPT !.calls = Append(@, @[1])]
    ELSE [tool |-> slot.tool, args |-> slot.args, calls |-> slot.calls,
          validated |-> slot.validated, context |-> slot.context,
          pc |-> "done", response |-> [resolved |-> FALSE, error |-> error],
          outcome |-> Threw(OnReject(slot.tool, slot.context, error))]

\* the awaited provider call rejects: the catch block rethrows
Rejected(slot, error) ==
  [tool |-> slot.tool, args |-> slot.args, calls |-> slot.calls,
   validated |-> slot.validated, context |-> slot.context,
   pc |-> "done", response |-> [resolved |-> FALSE, error |-> error],
   outcome |-> Threw(OnReject(slot.tool, slot.context, error))]

\* a failure that also ends the other invocations in flight
Settle_AbortsOthers(invs, i, slot) ==
  [j \in DOMAIN invs |->
     IF j = i THEN slot
     ELSE IF slot.pc = "done" /\ slot.outcome.kind = "threw"
             /\ invs[j].pc = "awaiting"
       THEN [tool |-> invs[j].tool, args |-> invs[j].args,
             calls |-> invs[j].calls, validated |-> invs[j].validated,
             context |-> invs[j].context, pc |-> "done",
             outcome |-> slot.outcome]
     ELSE invs[j]]

\* settling one invocation touches that invocation only
Settle(invs, i, slot) == [invs EXCEPT ![i] = slot]

----------------------------------------------------------------------------
(* Inputs tried *)

NotAUrl == <<"not a url">>
ExampleUrl == <<"https://", "example.com">>
AmazonDp == <<"https://", "amazon.com", "/dp/", "B0">>
AmazonGp == <<"https://", "amazon.com", "/gp/product/", "B0">>
AmazonOther == <<"https://", "amazon.com", "/some/other/path">>
ProfileA == <<"https://", "linkedin.com", "/in/", "a">>
ProfileB == <<"https://", "linkedin.com", "/in/", "b">>

Countries == {Undefined, Str(<<"U", "S">>), Str(<<"g", "b">>), Str(<<"u", "s", "a">>)}

ZipCodes ==
  {Undefined, Str(<<>>), Str(<<" ">>), Str(<<"1", "0">>), Str(<<" ", "1", " ">>)}

ScrapeArgs == [url : {NotAUrl, ExampleUrl, AmazonDp}, country : Countries]

SearchArgs ==
  [query : {<<>>, <<"quantum computing">>},
   searchEngine : {Undefined, Str(<<"google">>), Str(<<"yandex">>),
                   Str(<<"duckduckgo">>)},
   country : {Undefined, Str(<<"U", "S">>), Str(<<"u", "s", "a">>)},
   dataFormat : {Undefined, Str(<<"html">>), Str(<<"markdown">>),
                 Str(<<"json">>)}]

AmazonProductArgs ==
  [url : {NotAUrl, AmazonOther, AmazonDp, AmazonGp}, zipcode : ZipCodes]

LinkedinCollectProfilesArgs ==
  [urls : {<<>>, <<ProfileA>>, <<ProfileA, ProfileB>>, <<ProfileA, NotAUrl>>},
   format : {Undefined, Str(<<"json">>), Str(<<"jsonl">>), Str(<<"xml">>)}]

ArgsFor(scrape, search, amazon, linkedin) ==
  [id \in BrightDataToolId |->
     CASE id = "scrape" -> scrape
       [] id = "search" -> search
       [] id = "amazonProduct" -> amazon
       [] OTHER -> linkedin]

ToolArgs ==
  ArgsFor(ScrapeArgs, SearchArgs, AmazonProductArgs, LinkedinCollectProfilesArgs)

\* a few arguments of each tool, for the runs with several invocations
FewArgs ==
  ArgsFor(
    [url : {NotAUrl, ExampleUrl, AmazonDp}, country : {Undefined}],
    [query : {<<"quantum computing">>, <<"tla">>}, searchEngine : {Undefined},
     country : {Undefined}, dataFormat : {Undefined}],
    [url : {AmazonDp, AmazonGp}, zipcode : {Undefined}],
    [urls : {<<ProfileA>>, <<ProfileA, ProfileB>>}, format : {Undefined}])

ProviderResults ==
  {StringValue(<<"# Title">>),
   ObjectValue(<<<<"title", "Kettle">>, <<"price", "12">>>>)}

ProviderErrors ==
  {ErrorOf(<<"timeout">>),
   ThrownValue(StringValue(<<"rate limited">>)),
   ThrownValue(ObjectValue(<<<<"code", "403">>>>))}

----------------------------------------------------------------------------
(* Initial state and actions *)

InitConfig(keys, exclusions) ==
  /\ config \in [apiKey : keys, excludeTools : exclusions]
  /\ build = "pending"
  /\ buildError = <<>>
  /\ client = NoClient
  /\ clientsConstructed = 0
  /\ tools = NoTools
  /\ agent = NoAgent

Init ==
  /\ InitConfig(ApiKeys, SUBSET BrightDataToolId)
  /\ inv = [i \in 1..1 |-> Idle]

\* brightDataTools(config)
brightDataTools ==
  /\ build = "pending"
  /\ IF ApiKeyMissing(config.apiKey)
       THEN /\ build' = "failed"
            /\ buildError' = ApiKeyRequired
            /\ UNCHANGED <<client, clientsConstructed, tools>>
       ELSE \E datasets \in SUBSET DatasetNames :
              LET c == createBrightDataClient(Trim(config.apiKey.text), datasets)
              IN /\ client' = c
                 /\ clientsConstructed' = clientsConstructed + 1
                 /\ tools' = RegistryOf(config.excludeTools, c)
                 /\ build' = "ok"
                 /\ UNCHANGED buildError
  /\ UNCHANGED <<config, agent, inv>>

\* the module body of web-agent.ts after the registry is returned
webAgent ==
  /\ build = "ok"
  /\ agent.status = "none"
  /\ LET missing == missingTools(ExpectedTools, tools)
     IN IF Len(missing) > 0
          THEN agent' = [status |-> "failed", tools |-> NoTools,
                         error |-> InitFailed(missing)]
          ELSE agent' = [status |-> "created", tools |-> toolset(tools),
                         error |-> <<>>]
  /\ UNCHANGED <<config, build, buildError, client, clientsConstructed,
                 tools, inv>>

\* the runtime invokes a registered tool with arguments drawn from pool
Invoke(i, pool) ==
  /\ build = "ok"
  /\ inv[i].pc = "idle"
  /\ \E id \in DOMAIN tools :
       \E a \in pool[id] :
         inv' = Settle(inv, i, Started(tools[id], a))
  /\ UNCHANGED <<config, build, buildError, client, clientsConstructed,
                 tools, agent>>

\* the provider answers the call an invocation is awaiting
ProviderResolve(i) ==
  /\ inv[i].pc = "awaiting"
  /\ \E result \in ProviderResults :
       inv' = Settle(inv, i, Resolved(inv[i], result))
  /\ UNCHANGED <<config, build, buildError, client, clientsConstructed,
                 tools, agent>>

\* the call an invocation is awaiting fails
ProviderReject(i) ==
  /\ inv[i].pc = "awaiting"
  /\ \E error \in ProviderErrors :
       inv' = Settle(inv, i, Rejected(inv[i], error))
  /\ UNCHANGED <<config, build, buildError, client, clientsConstructed,
                 tools, agent>>

Next ==
  \/ brightDataTools
  \/ webAgent
  \/ \E i \in DOMAIN inv : Invoke(i, ToolArgs)
  \/ \E i \in DOMAIN inv : ProviderResolve(i)
  \/ \E i \in DOMAIN inv : ProviderReject(i)

Spec == Init /\ [][Next]_vars

\* several invocations in flight on one registry
InitConcurrent ==
  /\ InitConfig({Str(<<"k">>)}, {{}, {"scrape"}})
  /\ inv = [i \in 1..MaxInFlight |-> Idle]

NextConcurrent ==
  \/ brightDataTools
  \/ \E i \in DOMAIN inv : Invoke(i, FewArgs)
  \/ \E i \in DOMAIN inv : ProviderResolve(i)
  \/ \E i \in DOMAIN inv : ProviderReject(i)

SpecConcurrent == InitConcurrent /\ [][NextConcurrent]_vars

\* process.env.BRIGHTDATA_API_KEY ?? ''
EnvApiKey(env) == IF env.defined THEN env ELSE Str(<<>>)

\* the assembly as wired: the credential of the environment, no exclusions
InitWired ==
  /\ InitConfig({EnvApiKey(env) : env \in ApiKeys}, {{}})
  /\ inv = [i \in 1..1 |-> Idle]

\* the agent runtime invokes one of the tools bound to the created agent
AgentInvoke(i, pool) ==
  /\ agent.status = "created"
  /\ Invoke(i, pool)

NextWired ==
  \/ brightDataTools
  \/ webAgent
  \/ \E i \in DOMAIN inv : AgentInvoke(i, ToolArgs)
  \/ \E i \in DOMAIN inv : ProviderResolve(i)
  \/ \E i \in DOMAIN inv : ProviderReject(i)

SpecWired == InitWired /\ [][NextWired]_vars

----------------------------------------------------------------------------
(* Properties of the registry builder and the agent assembly *)

Blank(key) == ~key.defined \/ \A k \in DOMAIN key.text : key.text[k] \in WhiteSpace

\* C1: for a non-blank credential and any exclusion set E, the registry
\* returned by brightDataTools has exactly the identifiers not in E, each
\* bound to the tool of that identifier.
RegistryKeysAreTheNonExcluded ==
  (build # "pending" /\ ~Blank(config.apiKey)) =>
    /\ build = "ok"
    /\ DOMAIN tools = BrightDataToolId \ config.excludeTools
    /\ \A id \in DOMAIN tools : tools[id].id = id
    /\ config.excludeTools = {} => DOMAIN tools = BrightDataToolId

RegistryWithTwoExcluded ==
  /\ build = "ok"
  /\ config.excludeTools = {"search", "amazonProduct"}
  /\ DOMAIN tools = {"scrape", "linkedinCollectProfiles"}

\* C2: a missing, empty or whitespace-only credential makes brightDataTools
\* fail with 'Bright Data API key is required to initialize tools.' without
\* constructing a client or a tool; a client is constructed only for a
\* credential that passed the check.
BlankKeyFailsBeforeClient ==
  /\ (build # "pending" /\ Blank(config.apiKey)) =>
       /\ build = "failed"
       /\ buildError = <<"Bright Data API key is required to initialize tools.">>
       /\ clientsConstructed = 0
       /\ client = NoClient
       /\ DOMAIN tools = {}
  /\ clientsConstructed > 0 => (~Blank(config.apiKey) /\ build = "ok")

WhitespaceKeyRejected ==
  /\ build = "failed"
  /\ config.apiKey = Str(<<" ", " ">>)
  /\ clientsConstructed = 0

\* C3: assembly on a registry lacking a non-empty set M of the expected
\* identifiers fails with a message naming every identifier of M and creates
\* no agent; with M empty the agent is created with the four tools bound.
AssemblyNamesEveryMissingTool ==
  agent.status # "none" =>
    LET M == BrightDataToolId \ DOMAIN tools
    IN IF M = {}
         THEN /\ agent.status = "created"
              /\ \A id \in BrightDataToolId :
                   \E k \in DOMAIN agent.tools : agent.tools[k] = tools[id]
         ELSE /\ agent.status = "failed"
              /\ DOMAIN agent.tools = {}
              /\ \A id \in M : Contains(agent.error, <<id>>)
              /\ \A id \in BrightDataToolId \ M : ~Contains(agent.error, <<id>>)

AssemblyMissingSearchAndScrape ==
  /\ agent.status = "failed"
  /\ DOMAIN tools = {"amazonProduct", "linkedinCollectProfiles"}
  /\ Contains(agent.error, <<"search", ", ", "scrape">>)

----------------------------------------------------------------------------
(* Properties of the tool invocations *)

Started_(i) == inv[i].pc # "idle"
Done(i) == inv[i].pc = "done"
RejectedCall(i) == Done(i) /\ "response" \in DOMAIN inv[i] /\ ~inv[i].response.resolved
ResolvedCall(i) == Done(i) /\ "response" \in DOMAIN inv[i] /\ inv[i].response.resolved

OperationName(id) ==
  CASE id = "scrape" -> <<"scrape">>
    [] id = "search" -> <<"search">>
    [] id = "amazonProduct" -> <<"Amazon product lookup">>
    [] OTHER -> <<"LinkedIn profile collection">>

\* the text of the underlying error: its message, or the thrown value as text
UnderlyingText(error) ==
  IF error.isError THEN error.message
  ELSE IF error.value.type = "string" THEN error.value.text
  ELSE <<"[object Object]">>

NamesKeyInput(i) ==
  CASE inv[i].tool = "scrape" -> Contains(inv[i].outcome.error, inv[i].args.url)
    [] inv[i].tool = "search" -> Contains(inv[i].outcome.error, inv[i].args.query)
    [] inv[i].tool = "amazonProduct" ->
         Contains(inv[i].outcome.error, inv[i].args.url)
    [] OTHER ->
         \A k \in DOMAIN inv[i].args.urls :
           Contains(inv[i].outcome.error, inv[i].args.urls[k])

\* C4: when the provider call of any of the four tools throws, execute
\* rethrows an error whose message contains the operation name, the key
\* input of the request (URL, URLs or query) and the underlying error text.
ProviderFailureNamesOperationInputAndCause ==
  \A i \in DOMAIN inv :
    RejectedCall(i) =>
      /\ inv[i].outcome.kind = "threw"
      /\ Contains(inv[i].outcome.error, OperationName(inv[i].tool))
      /\ NamesKeyInput(i)
      /\ Contains(inv[i].outcome.error, UnderlyingText(inv[i].response.error))

\* C5: a successful execution of any of the four tools returns a string: the
\* provider's string unchanged, or the pretty-printed serialization of the
\* provider's structured value.
SuccessReturnsNormalizedString ==
  \A i \in DOMAIN inv :
    ResolvedCall(i) =>
      LET result == inv[i].response.result
          value == inv[i].outcome.value
      IN /\ inv[i].outcome.kind = "returned"
         /\ value.type = "string"
         /\ result.type = "string" => value = result
         /\ result.type # "string" =>
              /\ value.text = Stringify(result)
              /\ \A k \in DOMAIN result.props :
                   Contains(value.text, <<result.props[k][1]>>)

\* C6: a dataset tool invoked on a client without the dataset fails with
\* that dataset's 'dataset client is not available' error, issues no
\* provider call, and the error is not the tool's provider-failure message.
MissingDatasetFailsBeforeCall ==
  \A i \in DOMAIN inv :
    /\ (Started_(i) /\ inv[i].validated /\ inv[i].tool = "amazonProduct"
        /\ "amazon" \notin client.datasets) =>
         /\ Done(i)
         /\ inv[i].calls = <<>>
         /\ inv[i].outcome.kind = "threw"
         /\ inv[i].outcome.error =
              <<"Bright Data ", "Amazon", " dataset client is not available.">>
         /\ ~Contains(inv[i].outcome.error, OperationName("amazonProduct"))
    /\ (Started_(i) /\ inv[i].validated
        /\ inv[i].tool = "linkedinCollectProfiles"
        /\ "linkedin" \notin client.datasets) =>
         /\ Done(i)
         /\ inv[i].calls = <<>>
         /\ inv[i].outcome.kind = "threw"
         /\ inv[i].outcome.error =
              <<"Bright Data ", "LinkedIn", " dataset client is not available.">>
         /\ ~Contains(inv[i].outcome.error,
                      OperationName("linkedinCollectProfiles"))

AmazonDatasetMissing ==
  \E i \in DOMAIN inv :
    /\ Done(i)
    /\ inv[i].tool = "amazonProduct"
    /\ inv[i].validated
    /\ "amazon" \notin client.datasets
    /\ "linkedin" \in client.datasets
    /\ inv[i].outcome.kind = "threw"

\* the malformed arguments: a url that is no URL, an empty query, a country
\* code not of two letters, a product url without /dp/ or /gp/product/, an
\* empty list of profile urls or one with an element that is no URL
BadCountry(a) == a.country.defined /\ Len(a.country.text) # 2

Malformed(id, a) ==
  CASE id = "scrape" -> ~IsUrl(a.url) \/ BadCountry(a)
    [] id = "search" -> a.query = <<>> \/ BadCountry(a)
    [] id = "amazonProduct" -> ~IsUrl(a.url) \/ ~IsProductPath(a.url)
    [] OTHER -> a.urls = <<>> \/ \E k \in DOMAIN a.urls : ~IsUrl(a.urls[k])

\* C7: an invocation with malformed arguments ends in a validation error and
\* issues no provider call; every provider call is preceded by the successful
\* validation of the invocation's arguments.
ValidationPrecedesProviderCall ==
  \A i \in DOMAIN inv :
    Started_(i) =>
      /\ Malformed(inv[i].tool, inv[i].args) =>
           /\ Done(i)
           /\ inv[i].outcome.kind = "validationError"
           /\ inv[i].outcome.issues # <<>>
           /\ inv[i].calls = <<>>
      /\ inv[i].calls # <<>> =>
           /\ inv[i].validated
           /\ ~Malformed(inv[i].tool, inv[i].args)

ScrapeOfNonUrlRejected ==
  \E i \in DOMAIN inv :
    /\ Done(i)
    /\ inv[i].tool = "scrape"
    /\ inv[i].args.url = <<"not a url">>
    /\ inv[i].outcome.kind = "validationError"
    /\ inv[i].calls = <<>>

AtMostOneCall ==
  \A i \in DOMAIN inv :
    /\ Len(inv[i].calls) <= 1
    /\ Done(i) => inv[i].outcome.kind \in {"returned", "threw", "validationError"}
    /\ (Done(i) /\ "response" \in DOMAIN inv[i]) =>
         /\ Len(inv[i].calls) = 1
         /\ inv[i].response.resolved => inv[i].outcome.kind = "returned"
         /\ ~inv[i].response.resolved => inv[i].outcome.kind = "threw"
    /\ (Started_(i) /\ ~Done(i)) =>
         (Len(inv[i].calls) = 1 /\ "response" \notin DOMAIN inv[i])

EndedStaysEnded ==
  \A i \in DOMAIN inv :
    /\ Done(i) => inv'[i] = inv[i]
    /\ (inv[i].pc = "awaiting" /\ inv'[i] # inv[i]) =>
         /\ inv'[i].pc = "done"
         /\ inv'[i].calls = inv[i].calls

\* C8: no retry: an invocation issues at most one provider call; when that
\* call fails the invocation ends with a thrown error and no further call;
\* an invocation that has ended has ended in a result or in an error.
NoRetry == []AtMostOneCall /\ [][EndedStaysEnded]_vars

FailedAfterOneCall ==
  \E i \in DOMAIN inv :
    /\ RejectedCall(i)
    /\ Len(inv[i].calls) = 1
    /\ inv[i].outcome.kind = "threw"

OthersUntouched ==
  build = "ok" =>
    /\ tools' = tools
    /\ client' = client
    /\ clientsConstructed' = clientsConstructed
    /\ \A i, j \in DOMAIN inv :
         (i # j /\ inv'[i] # inv[i]) => inv'[j] = inv[j]

OwnArgumentsOwnResponse ==
  \A i, j \in DOMAIN inv :
    (/\ Done(i) /\ Done(j)
     /\ inv[i].tool = inv[j].tool
     /\ inv[i].args = inv[j].args
     /\ ("response" \in DOMAIN inv[i]) = ("response" \in DOMAIN inv[j])
     /\ ("response" \in DOMAIN inv[i]) => inv[i].response = inv[j].response)
    => inv[i].outcome = inv[j].outcome

SameHandleEverywhere ==
  build = "ok" => \A id \in DOMAIN tools : tools[id].client = client

\* C9: with several invocations in flight, a step of one invocation (a
\* failure included) leaves the registry, the client handle and every other
\* invocation as they were, and an invocation's outcome is determined by its
\* own tool, arguments and provider response.
InvocationsAreIsolated ==
  /\ [](OwnArgumentsOwnResponse /\ SameHandleEverywhere)
  /\ [][OthersUntouched]_vars

OneFailedOtherReturned ==
  /\ MaxInFlight >= 2
  /\ RejectedCall(1)
  /\ ResolvedCall(2)
  /\ inv[1].tool = inv[2].tool
  /\ inv[1].outcome.kind = "threw"
  /\ inv[2].outcome.kind = "returned"

UpperChars == {"U", "S", "G", "B"}

\* C10: a search with only a query is dispatched with engine google and
\* content format markdown; every search call is sent with transport format
\* 'raw', and a supplied country code is sent lower-cased.
SearchDispatchDefaults ==
  \A i \in DOMAIN inv :
    (Started_(i) /\ inv[i].tool = "search" /\ inv[i].calls # <<>>) =>
      LET a == inv[i].args
          sent == inv[i].calls[1]
      IN /\ sent.op = "search"
         /\ sent.query = a.query
         /\ sent.options.format = <<"raw">>
         /\ ~a.searchEngine.defined => sent.options.searchEngine = <<"google">>
         /\ a.searchEngine.defined => sent.options.searchEngine = a.searchEngine.text
         /\ ~a.dataFormat.defined => sent.options.dataFormat = <<"markdown">>
         /\ a.dataFormat.defined => sent.options.dataFormat = a.dataFormat.text
         /\ sent.options.country.defined = a.country.defined
         /\ a.country.defined =>
              /\ Len(sent.options.country.text) = Len(a.country.text)
              /\ \A k \in DOMAIN a.country.text :
                   /\ sent.options.country.text[k] \notin UpperChars
                   /\ sent.options.country.text[k] = LowerChar(a.country.text[k])

SearchWithQueryOnly ==
  \E i \in DOMAIN inv :
    /\ Started_(i)
    /\ inv[i].tool = "search"
    /\ inv[i].args = [query |-> <<"quantum computing">>,
                      searchEngine |-> Undefined, country |-> Undefined,
                      dataFormat |-> Undefined]
    /\ inv[i].calls # <<>>
    /\ inv[i].calls[1].options.searchEngine = <<"google">>
    /\ inv[i].calls[1].options.dataFormat = <<"markdown">>

\* z is text without the white space around it
IsTrimOf(z, text) ==
  /\ z # <<>>
  /\ z[1] \notin WhiteSpace
  /\ z[Len(z)] \notin WhiteSpace
  /\ \E first \in DOMAIN text :
       /\ first + Len(z) - 1 <= Len(text)
       /\ SubSeq(text, first, first + Len(z) - 1) = z
       /\ \A k \in DOMAIN text :
            (k < first \/ k > first + Len(z) - 1) => text[k] \in WhiteSpace

\* C11: an amazonProduct invocation that reaches the provider sends exactly
\* one request element with the given URL; the element carries a zip code if
\* and only if the supplied one is non-blank after trimming, and then it
\* carries the trimmed zip code.
AmazonRequestIsOneElement ==
  \A i \in DOMAIN inv :
    (Started_(i) /\ inv[i].tool = "amazonProduct" /\ inv[i].calls # <<>>) =>
      LET a == inv[i].args
          sent == inv[i].calls[1]
      IN /\ sent.op = "collectProducts"
         /\ Len(sent.request) = 1
         /\ sent.request[1].url = a.url
         /\ ("zipcode" \in DOMAIN sent.request[1]) <=> ~Blank(a.zipcode)
         /\ DOMAIN sent.request[1] \subseteq {"url", "zipcode"}
         /\ "zipcode" \in DOMAIN sent.request[1] =>
              IsTrimOf(sent.request[1].zipcode, a.zipcode.text)

AmazonPaddedZipTrimmed ==
  \E i \in DOMAIN inv :
    /\ Started_(i)
    /\ inv[i].tool = "amazonProduct"
    /\ inv[i].args.zipcode = Str(<<" ", "1", " ">>)
    /\ inv[i].calls # <<>>
    /\ inv[i].calls[1].request = <<[url |-> inv[i].args.url, zipcode |-> <<"1">>]>>

\* C12: as wired in web-agent.ts, a blank credential surfaces as the
\* builder's configuration error and the completeness check never runs;
\* whenever the builder returns, the four identifiers are present, the
\* completeness error is never raised and the assembly creates the agent.
WiredStartupFailuresExclusive ==
  /\ config.excludeTools = {}
  /\ config.apiKey.defined
  /\ (build # "pending" /\ Blank(config.apiKey)) =>
       /\ build = "failed"
       /\ buildError = <<"Bright Data API key is required to initialize tools.">>
  /\ build = "failed" => (agent.status = "none" /\ agent.error = <<>>)
  /\ build = "ok" => (DOMAIN tools = BrightDataToolId /\ buildError = <<>>)
  /\ agent.status # "none" =>
       /\ build = "ok"
       /\ agent.status = "created"
       /\ agent.error = <<>>
       /\ ~Contains(agent.error, <<"Bright Data tools failed to initialize (">>)
       /\ Cardinality(DOMAIN agent.tools) = 4
  /\ ~(buildError # <<>> /\ agent.error # <<>>)

WiredAgentCreated ==
  /\ config.apiKey = Str(<<" ", "k">>)
  /\ config.excludeTools = {}
  /\ build = "ok"
  /\ client.apiKey = <<"k">>
  /\ agent.status = "created"

====
